---- MODULE Spec2Model ----
(***************************************************************************)
(* Channels view of the control UI: channel order and enabled re-sort,     *)
(* list rows and their status summary, the single-expanded navigation      *)
(* state, and the tab bar of the expanded channel.                         *)
(*                                                                         *)
(* JavaScript values are written as strings: "undefined", "null", "true",  *)
(* "false", "str" for a non-empty string where a boolean is expected,      *)
(* "#number" for a number other than 0 and NaN, and "#0" for 0 and NaN.    *)
(***************************************************************************)
EXTENDS Integers, Sequences, FiniteSets, TLC

VARIABLES snapshot, enabled, expandedChannelId, activeChannelTab,
          orderedChannels, lastOp, tabs, channel, statusClass, statusSummary,
          clock, whatsappBusy, whatsappQrDataUrl, tabContent, focusedIndex

vars == <<snapshot, enabled, expandedChannelId, activeChannelTab,
          orderedChannels, lastOp, tabs, channel, statusClass, statusSummary,
          clock, whatsappBusy, whatsappQrDataUrl, tabContent, focusedIndex>>

\* the values Date.now() returns to a render in the order of its calls, the
\* WhatsApp action props, the tab content last rendered on its own, and the
\* list row that the last operation focused
Extras == <<clock, whatsappBusy, whatsappQrDataUrl, tabContent, focusedIndex>>

(***************************************************************************)
(* Bounds of the model.                                                    *)
(***************************************************************************)
\* longest channelOrder array of a snapshot of the navigation model
MaxOrderLen == 2
\* longest channelMeta array of a snapshot
MaxMetaLen == 1
\* most accounts of one channel in a snapshot of the navigation model
MaxAccounts == 2
\* longest channelOrder array of a snapshot of the ordering model
MaxSortLen == 3
\* largest accountCount of a list item of the status model
MaxAccountCount == 3
\* most accounts of the channel summarized in the activity model
MaxActivityLen == 3
\* longest channelOrder array of a snapshot of the keyboard model
MaxListLen == 3

(***************************************************************************)
(* Values.                                                                 *)
(***************************************************************************)
Undefined == "undefined"
Null == "null"
\* expandedChannelId === null
NoChannel == "null"

\* lastActivity: null, lastInboundAt: null
NoTimestamp == -1

\* focusedIndex: the last operation called focus() on no list row
NoFocus == -1

\* lastOp: the last operation and its argument; for a row activation and a
\* collapse also what was expanded before it ("none", the "same" channel,
\* an "other" channel) and whether the active tab was "status" or an "other" tab
Op(op, id) == [op |-> op, id |-> id, prev |-> "none", prevTab |-> "status"]

NavOp(op, id, nav) ==
    [op |-> op, id |-> id,
     prev |-> IF nav.expandedChannelId = NoChannel THEN "none"
              ELSE IF nav.expandedChannelId = id THEN "same" ELSE "other",
     prevTab |-> IF nav.activeChannelTab = "status" THEN "status" ELSE "other"]

\* lastOp before any operation
NoOp == Op("init", NoChannel)

\* the list item before any was summarized
NoItem ==
    [id |-> "", label |-> "", configured |-> FALSE, running |-> FALSE, connected |-> FALSE,
     accountCount |-> 0, lastActivity |-> NoTimestamp, hasError |-> FALSE, threw |-> FALSE]

\* an extension channel, known to no per-channel renderer
ExtensionKey == "matrix"

DefaultChannelOrder ==
    <<"whatsapp", "telegram", "discord", "googlechat", "slack", "signal", "imessage", "nostr">>

SeqRange(s) == {s[i] : i \in 1..Len(s)}

AllKeys == SeqRange(DefaultChannelOrder) \cup {ExtensionKey}

ChannelTabs == {"status", "accounts", "config", "actions"}

BoundedSeq(S, n) == UNION {[1..m -> S] : m \in 0..n}

\* a number that is truthy: any but 0 and NaN
NonString == "#number"
\* a number that is falsy: 0 or NaN
FalsyNumber == "#0"
\* typeof v === "string"
IsString(v) == v \notin {Undefined, Null, NonString, FalsyNumber, "true", "false"}

\* typeof v === "boolean"
IsBoolean(v) == v \in {"true", "false"}
\* v in a boolean context: false of undefined, null, false, "", 0 and NaN
Truthy(v) == v \notin {Undefined, Null, "false", "", FalsyNumber}

(***************************************************************************)
(* The status snapshot (props.snapshot).                                   *)
(***************************************************************************)
UndefinedStatus ==
    [kind |-> Undefined, configured |-> Undefined, running |-> Undefined,
     connected |-> Undefined, lastError |-> Undefined, linked |-> Undefined]

\* a status record the gateway reports for a healthy channel
RunningStatus ==
    [kind |-> "object", configured |-> "true", running |-> "true",
     connected |-> Undefined, lastError |-> Null, linked |-> Undefined]

\* channels: null; byKey holds the keys the object has
NoChannels == [isNull |-> TRUE, byKey |-> <<>>]

\* channelAccounts: null
NoAccounts == [isNull |-> TRUE, byKey |-> <<>>]

\* channelLabels absent
NoLabels == <<>>

NullSnapshot ==
    [isNull |-> TRUE, channelMeta |-> <<>>, channelOrder |-> <<>>, channelLabels |-> NoLabels,
     channels |-> NoChannels, channelAccounts |-> NoAccounts]

MetaEntry(k) == [id |-> k, label |-> "Meta " \o k]

MkSnapshot(meta, order, chans, accts) ==
    [isNull |-> FALSE, channelMeta |-> meta, channelOrder |-> order, channelLabels |-> NoLabels,
     channels |-> chans, channelAccounts |-> accts]

(***************************************************************************)
(* Channel Order Resolver.                                                 *)
(***************************************************************************)
resolveChannelOrder(snap) ==
    IF ~snap.isNull /\ Len(snap.channelMeta) > 0
      THEN [i \in 1..Len(snap.channelMeta) |-> snap.channelMeta[i].id]
      ELSE IF ~snap.isNull /\ Len(snap.channelOrder) > 0
             THEN snap.channelOrder
             ELSE DefaultChannelOrder

\* the host's per-channel enabled predicate
channelEnabled(key, en) == key \in en

\* a comparator that puts disabled channels first
channelCompare_disabledFirst(a, b) ==
    IF a.enabled # b.enabled
      THEN (IF a.enabled THEN 1 ELSE -1)
      ELSE a.order - b.order

\* the comparator handed to toSorted
channelCompare(a, b) ==
    IF a.enabled # b.enabled
      THEN (IF a.enabled THEN -1 ELSE 1)
      ELSE a.order - b.order

RECURSIVE InsertSorted(_, _)
InsertSorted(x, s) ==
    IF s = <<>> THEN <<x>>
    ELSE IF channelCompare(x, Head(s)) < 0
           THEN <<x>> \o s
           ELSE <<Head(s)>> \o InsertSorted(x, Tail(s))

RECURSIVE toSorted(_)
toSorted(s) ==
    IF s = <<>> THEN <<>>
    ELSE InsertSorted(s[Len(s)], toSorted(SubSeq(s, 1, Len(s) - 1)))

\* channelOrder.map((key, index) => ({key, enabled, order: index}))
mapChannelOrder(snap, en) ==
    LET channelOrder == resolveChannelOrder(snap)
    IN  [i \in 1..Len(channelOrder) |->
            [key |-> channelOrder[i],
             enabled |-> channelEnabled(channelOrder[i], en),
             order |-> i - 1]]

\* a re-sort that keeps the enabled channels only
sortOrderedChannels_enabledOnly(snap, en) ==
    toSorted(SelectSeq(mapChannelOrder(snap, en), LAMBDA c : c.enabled))

sortOrderedChannels(snap, en) == toSorted(mapChannelOrder(snap, en))

\* orderedChannels.map((c) => c.key)
orderedKeys(oc) == [i \in 1..Len(oc) |-> oc[i].key]

(***************************************************************************)
(* Channel Summarizer: one list item per key of the display order.         *)
(***************************************************************************)

\* thrown by a property read on null or undefined
TypeErrorStatus ==
    [kind |-> "TypeError", configured |-> Undefined, running |-> Undefined,
     connected |-> Undefined, lastError |-> Undefined, linked |-> Undefined]

\* props.snapshot.channels[key], read without optional chaining
statusOf_unguarded(snap, key) ==
    IF snap.isNull \/ snap.channels.isNull THEN TypeErrorStatus
    ELSE IF key \in DOMAIN snap.channels.byKey THEN snap.channels.byKey[key]
    ELSE UndefinedStatus

\* props.snapshot?.channels?.[key]
statusOf(snap, key) ==
    IF snap.isNull \/ snap.channels.isNull THEN UndefinedStatus
    ELSE IF key \in DOMAIN snap.channels.byKey THEN snap.channels.byKey[key]
    ELSE UndefinedStatus

\* props.snapshot?.channelAccounts ?? null
channelAccountsOf(snap) == IF snap.isNull THEN NoAccounts ELSE snap.channelAccounts

\* channelAccounts?.[key] ?? []
accountsOf(channelAccounts, key) ==
    IF channelAccounts.isNull \/ key \notin DOMAIN channelAccounts.byKey THEN <<>>
    ELSE channelAccounts.byKey[key]

\* the host's account-count resolver
getChannelAccountCount(key, channelAccounts) == Len(accountsOf(channelAccounts, key))

\* meta?.label ?? snapshot?.channelLabels?.[key] ?? key, where the meta map
\* (Object.fromEntries) keeps the last channelMeta entry of a repeated id
resolveChannelLabel(snap, key) ==
    LET meta == IF snap.isNull THEN <<>> ELSE snap.channelMeta
        hits == {i \in 1..Len(meta) : meta[i].id = key}
    IN  IF hits # {}
          THEN meta[CHOOSE i \in hits : \A j \in hits : j <= i].label
          ELSE IF ~snap.isNull /\ key \in DOMAIN snap.channelLabels
                 THEN snap.channelLabels[key]
                 ELSE key

\* the loop over the accounts that keeps the largest truthy lastInboundAt
RECURSIVE lastActivityOf(_, _)
lastActivityOf(accounts, lastActivity) ==
    IF accounts = <<>> THEN lastActivity
    ELSE LET at == Head(accounts).lastInboundAt
         IN  lastActivityOf(Tail(accounts),
                 IF at # NoTimestamp /\ at # 0 /\ (lastActivity = NoTimestamp \/ at > lastActivity)
                   THEN at ELSE lastActivity)

\* a summarizer that takes any truthy field for true
buildChannelListItem_truthy(snap, key) ==
    LET status == statusOf(snap, key)
    IN  [id |-> key,
         label |-> resolveChannelLabel(snap, key),
         configured |-> Truthy(status.configured),
         running |-> Truthy(status.running),
         connected |-> Truthy(status.connected),
         hasError |-> Truthy(status.lastError),
         accountCount |-> getChannelAccountCount(key, channelAccountsOf(snap)),
         lastActivity |-> lastActivityOf(accountsOf(channelAccountsOf(snap), key), NoTimestamp),
         threw |-> status.kind = "TypeError"]

\* one element of buildChannelListItems
buildChannelListItem(snap, key) ==
    LET status == statusOf(snap, key)
    IN  [id |-> key,
         label |-> resolveChannelLabel(snap, key),
         configured |-> IF IsBoolean(status.configured) THEN status.configured = "true" ELSE FALSE,
         running |-> IF IsBoolean(status.running) THEN status.running = "true" ELSE FALSE,
         connected |-> IF IsBoolean(status.connected) THEN status.connected = "true" ELSE FALSE,
         hasError |-> IsString(status.lastError) /\ status.lastError # "",
         accountCount |-> getChannelAccountCount(key, channelAccountsOf(snap)),
         lastActivity |-> lastActivityOf(accountsOf(channelAccountsOf(snap), key), NoTimestamp),
         threw |-> status.kind = "TypeError"]

buildChannelListItems(snap, keys) ==
    [i \in 1..Len(keys) |-> buildChannelListItem(snap, keys[i])]

(***************************************************************************)
(* Status dot and summary of a list row.                                   *)
(***************************************************************************)
\* a status dot that looks at the flags before the error
getStatusClass_errorLast(item) ==
    IF item.connected \/ item.running THEN "ok"
    ELSE IF item.hasError THEN "error"
    ELSE IF item.configured THEN "configured"
    ELSE "unconfigured"

getStatusClass(item) ==
    IF item.hasError THEN "error"
    ELSE IF item.connected \/ item.running THEN "ok"
    ELSE IF item.configured THEN "configured"
    ELSE "unconfigured"

\* the parts that getStatusSummary joins with " · "
getStatusSummary(item) ==
    <<IF item.hasError THEN "Error"
      ELSE IF item.connected THEN "Connected"
      ELSE IF item.running THEN "Running"
      ELSE IF item.configured THEN "Configured"
      ELSE "Not configured">>
    \o (IF item.accountCount > 1 THEN <<ToString(item.accountCount) \o " accounts">>
        ELSE IF item.accountCount = 1 THEN <<"1 account">>
        ELSE <<>>)

(***************************************************************************)
(* Tab bar.                                                                *)
(***************************************************************************)
\* hideTabs.accounts of renderExpandedChannel, with the threshold off by one
hideAccountsTab_below1(accountCount) == IF accountCount < 1 THEN "true" ELSE "false"

\* hideTabs.accounts of renderExpandedChannel
hideAccountsTab(accountCount) == IF accountCount < 2 THEN "true" ELSE "false"

createDefaultChannelTabs(hideAccounts, hideActions) ==
    <<[id |-> "status", label |-> "Status", hidden |-> Undefined, disabled |-> Undefined],
      [id |-> "accounts", label |-> "Accounts", hidden |-> hideAccounts, disabled |-> Undefined],
      [id |-> "config", label |-> "Config", hidden |-> Undefined, disabled |-> Undefined],
      [id |-> "actions", label |-> "Actions", hidden |-> hideActions, disabled |-> Undefined]>>

\* a filter that lets hidden tabs through
visibleTabs_all(tabDefs) == tabDefs

\* tabs.filter((tab) => !tab.hidden)
visibleTabs(tabDefs) == SelectSeq(tabDefs, LAMBDA tab : ~Truthy(tab.hidden))

\* the buttons of the tab bar
renderChannelTabs(tabDefs, activeTab) ==
    LET visible == visibleTabs(tabDefs)
    IN  [i \in 1..Len(visible) |->
            [id |-> visible[i].id,
             label |-> visible[i].label,
             isActive |-> visible[i].id = activeTab,
             isDisabled |-> visible[i].disabled = "true"]]

\* a click handler that forgets the disabled check
tabClickTargets_noGuard(button) == {button.id}

\* the ids a click on a tab button hands to onTabChange
tabClickTargets(button) == IF ~button.isDisabled THEN {button.id} ELSE {}

(***************************************************************************)
(* Activity Classifier: the derived states of one account card.            *)
(***************************************************************************)
RECENT_ACTIVITY_THRESHOLD_MS == 10 * 60 * 1000

\* readings without the first n
DropReadings(readings, n) == SubSeq(readings, n + 1, Len(readings))

\* !account.lastInboundAt holds of null, undefined and 0; otherwise the call
\* reads Date.now(), the first of the readings still to come
hasRecentActivity(account, readings) ==
    IF account.lastInboundAt \in {NoTimestamp, 0} THEN FALSE
    ELSE Head(readings) - account.lastInboundAt < RECENT_ACTIVITY_THRESHOLD_MS

\* how many readings one call of hasRecentActivity takes
recentActivityReads(account) == IF account.lastInboundAt \in {NoTimestamp, 0} THEN 0 ELSE 1

deriveRunningStatus(account, readings) ==
    IF Truthy(account.running) THEN "Yes"
    ELSE IF hasRecentActivity(account, readings) THEN "Active"
    ELSE "No"

\* how many readings deriveRunningStatus takes
runningReads(account) == IF Truthy(account.running) THEN 0 ELSE recentActivityReads(account)

deriveConnectedStatus(account, readings) ==
    IF account.connected = "true" THEN "Yes"
    ELSE IF account.connected = "false" THEN "No"
    ELSE IF hasRecentActivity(account, readings) THEN "Active"
    ELSE "n/a"

\* how many readings deriveConnectedStatus takes
connectedReads(account) ==
    IF account.connected \in {"true", "false"} THEN 0 ELSE recentActivityReads(account)

\* the fields of one account card; lastInbound is the timestamp handed to
\* formatAgo, or NoTimestamp where the card shows n/a; deriveRunningStatus is
\* called before deriveConnectedStatus, each call reading the clock anew
renderGenericAccount(account, readings) ==
    [title |-> IF Truthy(account.name) THEN account.name ELSE account.accountId,
     accountId |-> account.accountId,
     running |-> deriveRunningStatus(account, readings),
     configured |-> IF Truthy(account.configured) THEN "Yes" ELSE "No",
     connected |-> deriveConnectedStatus(account, DropReadings(readings, runningReads(account))),
     lastInbound |-> IF account.lastInboundAt \in {NoTimestamp, 0} THEN NoTimestamp
                     ELSE account.lastInboundAt,
     error |-> Truthy(account.lastError)]

\* how many readings the card of one account takes
accountReads(account) == runningReads(account) + connectedReads(account)

\* how many readings the cards of the accounts take
RECURSIVE accountsReads(_)
accountsReads(accounts) ==
    IF accounts = <<>> THEN 0
    ELSE accountReads(Head(accounts)) + accountsReads(Tail(accounts))

(***************************************************************************)
(* Detail Composer: the card rendered under the expanded row.              *)
(***************************************************************************)
\* x ? "Yes" : "No"
YesNo(v) == IF Truthy(v) THEN "Yes" ELSE "No"

\* typeof x === "boolean" ? x : undefined, then x == null ? "n/a" : x ? "Yes" : "No"
YesNoNa(v) == IF ~IsBoolean(v) THEN "n/a" ELSE IF v = "true" THEN "Yes" ELSE "No"

\* a field that a status strategy does not render
NotShown == "-"

ProbeChannels == {"telegram", "discord", "slack", "signal", "googlechat"}

\* the fields renderChannelStatus shows for the channel
renderChannelStatus(channelId, snap) ==
    LET status == statusOf(snap, channelId)
    IN  IF channelId = "whatsapp"
          THEN [strategy |-> channelId, configured |-> YesNo(status.configured),
                linked |-> YesNo(status.linked), running |-> YesNo(status.running),
                connected |-> YesNo(status.connected),
                errorCallout |-> Truthy(status.lastError),
                threw |-> status.kind = "TypeError"]
        ELSE IF channelId \in SeqRange(DefaultChannelOrder)
          THEN [strategy |-> channelId, configured |-> YesNo(status.configured),
                linked |-> NotShown, running |-> YesNo(status.running),
                connected |-> NotShown,
                errorCallout |-> Truthy(status.lastError),
                threw |-> status.kind = "TypeError"]
        ELSE [strategy |-> "generic", configured |-> YesNoNa(status.configured),
                linked |-> NotShown, running |-> YesNoNa(status.running),
                connected |-> YesNoNa(status.connected),
                errorCallout |-> IsString(status.lastError) /\ status.lastError # "",
                threw |-> status.kind = "TypeError"]

NoStatusContent ==
    [strategy |-> NotShown, configured |-> NotShown, linked |-> NotShown, running |-> NotShown,
     connected |-> NotShown, errorCallout |-> FALSE, threw |-> FALSE]

\* the account cards, or the "No accounts configured." placeholder; the cards
\* are rendered in the order of the accounts, each after the clock readings of
\* the cards before it
renderChannelAccounts(channelId, channelAccounts) ==
    LET accounts == accountsOf(channelAccounts, channelId)
    IN  [placeholder |-> Len(accounts) = 0,
         cards |-> [i \in 1..Len(accounts) |->
                       renderGenericAccount(accounts[i],
                           DropReadings(clock, accountsReads(SubSeq(accounts, 1, i - 1))))]]

NoAccountsContent == [placeholder |-> FALSE, cards |-> <<>>]

\* the QR login button, the logout button of a linked WhatsApp, and whether
\* the QR image is shown
renderWhatsAppActions(whatsapp) ==
    LET showQr == whatsappQrDataUrl # Null
    IN  [kind |-> "whatsapp",
         buttons |->
            <<[action |-> "onWhatsAppStart",
               label |-> IF showQr THEN "Refresh QR" ELSE "Show QR Code",
               disabled |-> whatsappBusy]>>
            \o (IF Truthy(whatsapp.linked)
                  THEN <<[action |-> "onWhatsAppLogout", label |-> "Logout",
                          disabled |-> whatsappBusy]>>
                  ELSE <<>>),
         qr |-> showQr]

\* the probe button has no disabled attribute
renderProbeActions ==
    [kind |-> "probe",
     buttons |-> <<[action |-> "onRefresh", label |-> "Probe Connection", disabled |-> FALSE]>>,
     qr |-> FALSE]

\* the "No actions available for this channel." placeholder
NoActionsAvailable == [kind |-> "placeholder", buttons |-> <<>>, qr |-> FALSE]

\* the action set renderChannelActions offers for the channel
renderChannelActions(channelId, snap) ==
    IF channelId = "whatsapp" THEN renderWhatsAppActions(statusOf(snap, "whatsapp"))
    ELSE IF channelId \in ProbeChannels THEN renderProbeActions
    ELSE NoActionsAvailable

NoActionsContent == [kind |-> NotShown, buttons |-> <<>>, qr |-> FALSE]

renderTabContent(channelId, activeTab, snap) ==
    [tab |-> IF activeTab \in ChannelTabs THEN activeTab ELSE "nothing",
     status |-> IF activeTab = "status" THEN renderChannelStatus(channelId, snap)
                ELSE NoStatusContent,
     accounts |-> IF activeTab = "accounts"
                    THEN renderChannelAccounts(channelId, channelAccountsOf(snap))
                    ELSE NoAccountsContent,
     actions |-> IF activeTab = "actions" THEN renderChannelActions(channelId, snap)
                 ELSE NoActionsContent]

\* renderExpandedChannel and the renderChannelDetail it returns
renderExpandedChannel(channelId, snap, activeTab) ==
    LET accountCount == getChannelAccountCount(channelId, channelAccountsOf(snap))
        tabDefs == createDefaultChannelTabs(hideAccountsTab(accountCount), Undefined)
        content == renderTabContent(channelId, activeTab, snap)
    IN  [rendered |-> TRUE,
         channelId |-> channelId,
         channelLabel |-> resolveChannelLabel(snap, channelId),
         tabBar |-> renderChannelTabs(tabDefs, activeTab),
         content |-> content,
         threw |-> content.status.threw]

\* the tab content before any was rendered on its own
NoContent ==
    [tab |-> "nothing", status |-> NoStatusContent, accounts |-> NoAccountsContent,
     actions |-> NoActionsContent]

\* lit's nothing
Nothing ==
    [rendered |-> FALSE, channelId |-> "", channelLabel |-> "", tabBar |-> <<>>,
     content |-> [tab |-> "nothing", status |-> NoStatusContent,
                  accounts |-> NoAccountsContent, actions |-> NoActionsContent],
     threw |-> FALSE]

(***************************************************************************)
(* The channel list.                                                       *)
(***************************************************************************)
\* const isExpanded = expandedChannelId === channel.id
isExpandedRow(expandedId, item) == expandedId = item.id

renderChannelsList(items, expandedId, snap, activeTab) ==
    [i \in 1..Len(items) |->
        LET isExpanded == isExpandedRow(expandedId, items[i])
        IN  [id |-> items[i].id,
             label |-> items[i].label,
             selected |-> isExpanded,
             statusClass |-> getStatusClass(items[i]),
             statusSummary |-> getStatusSummary(items[i]),
             detail |-> IF isExpanded
                          THEN renderExpandedChannel(items[i].id, snap, activeTab)
                          ELSE Nothing,
             threw |-> items[i].threw]]

(***************************************************************************)
(* Navigation State Machine: the host's callbacks, and their wiring.       *)
(***************************************************************************)
\* props.onChannelExpand
onChannelExpand(nav, channelId) ==
    [expandedChannelId |-> channelId, activeChannelTab |-> "status"]

\* props.onChannelCollapse
onChannelCollapse(nav) == [nav EXCEPT !.expandedChannelId = NoChannel]

\* props.onChannelTabChange
onChannelTabChange(nav, tab) == [nav EXCEPT !.activeChannelTab = tab]

\* a row click wired to toggle the expanded row
onChannelClick_toggle(nav, channelId) ==
    IF nav.expandedChannelId = channelId THEN onChannelCollapse(nav)
    ELSE onChannelExpand(nav, channelId)

\* renderChannelsList is given onChannelClick: props.onChannelExpand
onChannelClick(nav, channelId) == onChannelExpand(nav, channelId)

\* renderChannelsList is given onChannelCollapse: props.onChannelCollapse
onListCollapse(nav) == onChannelCollapse(nav)

\* renderChannelDetail is given onCollapse: props.onChannelCollapse
onCollapse(nav) == onChannelCollapse(nav)

\* renderChannelDetail is given onTabChange: props.onChannelTabChange
onTabChange(nav, tab) == onChannelTabChange(nav, tab)

ListKeys == {"Enter", " ", "Escape", "ArrowDown", "ArrowUp", "Home", "End"}

\* a key handler whose Escape activates the row
handleKeyDown_escapeActivates(nav, key, channelId) ==
    IF key \in {"Enter", " ", "Escape"} THEN onChannelClick(nav, channelId) ELSE nav

\* the navigation state after handleKeyDown; the four focus keys only move focus
handleKeyDown(nav, key, channelId) ==
    IF key \in {"Enter", " "} THEN onChannelClick(nav, channelId)
    ELSE IF key = "Escape" THEN onListCollapse(nav)
    ELSE nav

\* the index a focus key pressed on the row at index hands to focusRow
focusTarget(key, index, count) ==
    IF key = "ArrowDown" THEN index + 1
    ELSE IF key = "ArrowUp" THEN index - 1
    ELSE IF key = "Home" THEN 0
    ELSE count - 1

\* a focusRow that wraps around at the ends of the list
focusRow_wrap(index, count) == IF count = 0 THEN NoFocus ELSE index % count

\* the row focusRow focuses in a list of count rows: the clamped index, or
\* no row where rows[clampedIndex] is undefined
focusRow(index, count) ==
    LET lower == IF index < count - 1 THEN index ELSE count - 1
        clampedIndex == IF lower > 0 THEN lower ELSE 0
    IN  IF clampedIndex < count THEN clampedIndex ELSE NoFocus

\* the row that handleKeyDown on the row at index calls focus() on: the row
\* focusRow finds for the four focus keys, none for any other key
focusAfterKeyDown(key, index, count) ==
    IF key \in {"ArrowDown", "ArrowUp", "Home", "End"}
      THEN focusRow(focusTarget(key, index, count), count)
      ELSE NoFocus

\* what a key on a row did, as recorded in lastOp
keyOp(key) ==
    IF key \in {"Enter", " "} THEN "activate"
    ELSE IF key = "Escape" THEN "escape"
    ELSE "focus"

(***************************************************************************)
(* The navigation model: snapshots are replaced wholesale, and the user    *)
(* clicks rows, presses keys on rows, clicks tabs and closes the card.     *)
(***************************************************************************)
Account(n) ==
    [accountId |-> "acct" \o ToString(n), name |-> Undefined, configured |-> "true",
     running |-> "true", connected |-> Null, lastInboundAt |-> NoTimestamp,
     lastError |-> Null]

\* channelAccounts with n accounts of the extension channel
ExtensionAccounts(n) ==
    [isNull |-> FALSE, byKey |-> [k \in {ExtensionKey} |-> [i \in 1..n |-> Account(i)]]]

\* channels with a record for whatsapp and for the extension channel
SomeChannels ==
    [isNull |-> FALSE,
     byKey |-> [k \in {"whatsapp", ExtensionKey} |->
                  IF k = "whatsapp" THEN [RunningStatus EXCEPT !.linked = "true"]
                  ELSE RunningStatus]]

\* the order hints of a snapshot: channelMeta alone, or channelOrder alone, or neither
NavOrderHints ==
    {[meta |-> m, order |-> <<>>] : m \in BoundedSeq({ExtensionKey}, MaxMetaLen)} \cup
    {[meta |-> <<>>, order |-> o] : o \in BoundedSeq({ExtensionKey}, MaxOrderLen)}

NavSnapshots ==
    {NullSnapshot} \cup
    {MkSnapshot([i \in 1..Len(h.meta) |-> MetaEntry(h.meta[i])], h.order, ch, ac) :
        h \in NavOrderHints,
        ch \in {NoChannels, SomeChannels},
        ac \in {NoAccounts} \cup {ExtensionAccounts(n) : n \in 0..MaxAccounts}}

\* the channels the host reports enabled throughout the navigation model
NavEnabled == {"telegram", ExtensionKey}

Nav == [expandedChannelId |-> expandedChannelId, activeChannelTab |-> activeChannelTab]

\* a reading of Date.now(), in ms
SomeNow == 1500000

\* the clock, the action props, the content and the focus where a model leaves
\* them alone: no account for which the clock is read, no action in flight, no
\* QR payload, nothing focused
InitExtras ==
    /\ clock = <<>>
    /\ whatsappBusy = FALSE
    /\ whatsappQrDataUrl = Null
    /\ tabContent = NoContent
    /\ focusedIndex = NoFocus

\* the rows of the list as last rendered
Rows ==
    renderChannelsList(buildChannelListItems(snapshot, orderedKeys(orderedChannels)),
                       expandedChannelId, snapshot, activeChannelTab)

Init ==
    /\ snapshot = NullSnapshot
    /\ enabled = NavEnabled
    /\ expandedChannelId = NoChannel
    /\ activeChannelTab = "status"
    /\ orderedChannels = sortOrderedChannels(NullSnapshot, NavEnabled)
    /\ lastOp = NoOp
    /\ tabs = <<>>
    /\ channel = NoItem
    /\ statusClass = ""
    /\ statusSummary = <<>>
    /\ InitExtras

Unused == <<tabs, channel, statusClass, statusSummary, clock, whatsappBusy,
            whatsappQrDataUrl, tabContent>>

\* the poll hands the view a new snapshot
ReplaceSnapshot(s) ==
    /\ snapshot' = s
    /\ orderedChannels' = sortOrderedChannels(s, enabled)
    /\ focusedIndex' = NoFocus
    /\ lastOp' = Op("snapshot", NoChannel)
    /\ UNCHANGED <<enabled, expandedChannelId, activeChannelTab, Unused>>

\* the host takes the navigation state; focused is the row the handler called
\* focus() on
SetNav(nav, focused) ==
    /\ expandedChannelId' = nav.expandedChannelId
    /\ activeChannelTab' = nav.activeChannelTab
    /\ focusedIndex' = focused
    /\ UNCHANGED <<snapshot, enabled, orderedChannels, Unused>>

\* @click of row i
RowClick(i) ==
    /\ i \in 1..Len(orderedChannels)
    /\ LET row == Rows[i]
       IN  /\ SetNav(onChannelClick(Nav, row.id), NoFocus)
           /\ lastOp' = NavOp("click", row.id, Nav)

\* handleKeyDown of row i: the callback of Enter, Space and Escape, and the
\* focusRow of the four focus keys
KeyDown(i, key) ==
    /\ i \in 1..Len(orderedChannels)
    /\ SetNav(handleKeyDown(Nav, key, Rows[i].id),
              focusAfterKeyDown(key, i - 1, Len(orderedChannels)))

\* @keydown of row i
RowKeyDown(i, key) ==
    /\ KeyDown(i, key)
    /\ lastOp' = IF keyOp(key) = "activate" THEN NavOp("activate", Rows[i].id, Nav)
                  ELSE IF keyOp(key) = "escape" THEN NavOp("escape", NoChannel, Nav)
                  ELSE Op("focus", NoChannel)

\* @click of the close button of the card under row i
CloseClick(i) ==
    /\ i \in 1..Len(orderedChannels)
    /\ Rows[i].detail.rendered
    /\ SetNav(onCollapse(Nav), NoFocus)
    /\ lastOp' = NavOp("close", NoChannel, Nav)

\* @click of button b of the tab bar of the card under row i
TabClick(i, b) ==
    /\ i \in 1..Len(orderedChannels)
    /\ LET detail == Rows[i].detail
       IN  /\ detail.rendered
           /\ b \in 1..Len(detail.tabBar)
           /\ \E tab \in tabClickTargets(detail.tabBar[b]) :
                 /\ SetNav(onTabChange(Nav, tab), NoFocus)
                 /\ lastOp' = Op("tab", tab)

MaxRows == Len(DefaultChannelOrder)

Next ==
    \/ \E s \in NavSnapshots : ReplaceSnapshot(s)
    \/ \E i \in 1..MaxRows : RowClick(i)
    \/ \E i \in 1..MaxRows, key \in ListKeys : RowKeyDown(i, key)
    \/ \E i \in 1..MaxRows : CloseClick(i)
    \/ \E i \in 1..MaxRows, b \in 1..4 : TabClick(i, b)

Spec == Init /\ [][Next]_vars

(***************************************************************************)
(* Navigation claims.                                                      *)
(***************************************************************************)
RowIds == {Rows[i].id : i \in 1..Len(orderedChannels)}

SelectedRows == {i \in 1..Len(orderedChannels) : Rows[i].selected}

\* C3: a row activation (the affordance of expand) on channel c leaves c
\* expanded with the status tab active, whatever was expanded before and
\* whichever tab was active; the selected rows are those of c and show the
\* status content.
C3_ExpandGivesStatusTab ==
    lastOp.op \in {"click", "activate"} =>
        /\ expandedChannelId = lastOp.id
        /\ activeChannelTab = "status"
        /\ SelectedRows # {}
        /\ \A i \in SelectedRows :
              /\ Rows[i].id = lastOp.id
              /\ Rows[i].detail.content.tab = "status"

\* telegram was expanded while another channel was open on a tab other than status
C3_Witness ==
    /\ lastOp.op = "click"
    /\ lastOp.id = "telegram"
    /\ lastOp.prev = "other"
    /\ lastOp.prevTab = "other"
    /\ expandedChannelId = "telegram"

C5_CollapseIdempotent ==
    [][lastOp'.op \in {"escape", "close"}
          => /\ expandedChannelId' = NoChannel
             /\ activeChannelTab' = activeChannelTab
             /\ (expandedChannelId = NoChannel =>
                    UNCHANGED <<expandedChannelId, activeChannelTab>>)]_vars

\* Escape was pressed while nothing was expanded, after an earlier collapse
\* from a tab other than status
C5_Witness ==
    /\ lastOp.op = "escape"
    /\ lastOp.prev = "none"
    /\ expandedChannelId = NoChannel
    /\ activeChannelTab # "status"

\* C6 as stated: at most one row is selected and has the detail card, and
\* its id is expandedChannelId.
C6_AtMostOneRowSelected ==
    /\ Cardinality(SelectedRows) <= 1
    /\ \A i \in 1..Len(orderedChannels) :
          /\ Rows[i].detail.rendered <=> Rows[i].selected
          /\ Rows[i].selected => Rows[i].id = expandedChannelId

\* the key of the expanded channel is absent from the rows
ExpandedAbsent == expandedChannelId # NoChannel /\ expandedChannelId \notin RowIds

\* C7: with the expanded channel absent from the order, or in the order but
\* without a record in channels and channelAccounts, nothing throws, the
\* channel is not shown or shown with the no-data defaults, and a snapshot
\* replacement leaves the navigation state as it was.
C7_MissingChannelTolerated ==
    /\ [](\A i \in 1..Len(orderedChannels) :
            LET row == Rows[i]
            IN  /\ ~row.threw
                /\ ~row.detail.threw
                /\ ExpandedAbsent => ~row.selected /\ ~row.detail.rendered
                /\ (row.selected /\ statusOf(snapshot, row.id).kind = Undefined
                      /\ accountsOf(channelAccountsOf(snapshot), row.id) = <<>>)
                     => /\ row.statusClass = "unconfigured"
                        /\ row.statusSummary = <<"Not configured">>
                        /\ Len(row.detail.tabBar) = 3
                        /\ row.detail.content.status.configured \in {"No", "n/a", NotShown}
                        /\ row.detail.content.status.running \in {"No", "n/a", NotShown}
                        /\ row.detail.content.status.connected \in {"No", "n/a", NotShown}
                        /\ ~row.detail.content.status.errorCallout
                        /\ (activeChannelTab = "accounts" => row.detail.content.accounts.placeholder))
    /\ [][lastOp'.op = "snapshot" =>
             UNCHANGED <<expandedChannelId, activeChannelTab>>]_vars

\* a snapshot arrived whose order no longer lists the expanded channel
C7_Witness ==
    /\ lastOp.op = "snapshot"
    /\ ExpandedAbsent
    /\ expandedChannelId = "whatsapp"
    /\ activeChannelTab = "config"

\* C8: the tab bar of the expanded channel is Status, Config, Actions when
\* the channel has fewer than two accounts and Status, Accounts, Config,
\* Actions otherwise.
C8_AccountsTabHiddenBelowTwo ==
    \A i \in 1..Len(orderedChannels) :
        LET row == Rows[i]
            accountCount == Len(accountsOf(channelAccountsOf(snapshot), row.id))
            ids == [b \in 1..Len(row.detail.tabBar) |-> row.detail.tabBar[b].id]
        IN  row.detail.rendered =>
              ids = IF accountCount < 2 THEN <<"status", "config", "actions">>
                    ELSE <<"status", "accounts", "config", "actions">>

\* a channel with exactly two accounts is expanded and shows the Accounts tab
C8_Witness ==
    /\ expandedChannelId = ExtensionKey
    /\ Len(accountsOf(channelAccountsOf(snapshot), ExtensionKey)) = 2
    /\ \E i \in 1..Len(orderedChannels) :
          /\ Rows[i].detail.rendered
          /\ \E b \in 1..Len(Rows[i].detail.tabBar) : Rows[i].detail.tabBar[b].id = "accounts"

\* C18: under every expanded row the tab whose content is rendered is the
\* active tab and is one of the buttons of the row's tab bar.
C18_ActiveTabVisible ==
    \A i \in 1..Len(orderedChannels) :
        LET detail == Rows[i].detail
        IN  detail.rendered =>
              /\ detail.content.tab = activeChannelTab
              /\ \E b \in 1..Len(detail.tabBar) :
                    /\ detail.tabBar[b].id = detail.content.tab
                    /\ detail.tabBar[b].isActive

(***************************************************************************)
(* The tab bar model: a tab set is drawn, with any tab hidden or disabled, *)
(* and the user clicks the buttons of the bar rendered for it.             *)
(***************************************************************************)
TabFlags == {Undefined, "true", "false"}

TabSets ==
    {[i \in 1..4 |->
        [createDefaultChannelTabs(Undefined, Undefined)[i]
            EXCEPT !.hidden = h[i], !.disabled = d[i]]] :
        h \in [1..4 -> TabFlags], d \in [1..4 -> TabFlags]}

InitTabs ==
    /\ tabs \in TabSets
    /\ expandedChannelId \in {"whatsapp", ExtensionKey}
    /\ activeChannelTab \in ChannelTabs
    /\ snapshot = NullSnapshot
    /\ enabled = {}
    /\ orderedChannels = <<>>
    /\ lastOp = NoOp
    /\ channel = NoItem
    /\ statusClass = ""
    /\ statusSummary = <<>>
    /\ InitExtras

\* @click of button b of the bar rendered for tabs
TabBarClick(b) ==
    LET bar == renderChannelTabs(tabs, activeChannelTab)
    IN  /\ b \in 1..Len(bar)
        /\ \E tab \in tabClickTargets(bar[b]) :
              /\ SetNav(onTabChange(Nav, tab), NoFocus)
              /\ lastOp' = Op("tab", tab)

NextTabs == \E b \in 1..4 : TabBarClick(b)

SpecTabs == InitTabs /\ [][NextTabs]_vars

\* C9: every tab change the bar requests names a tab of the set that is
\* neither hidden nor disabled, and the change sets activeTab to it and
\* leaves expandedChannelId alone.
C9_TabBarRequestsVisibleEnabledTab ==
    [][lastOp'.op = "tab" =>
          /\ \E i \in 1..Len(tabs) :
                /\ tabs[i].id = lastOp'.id
                /\ ~Truthy(tabs[i].hidden)
                /\ tabs[i].disabled # "true"
          /\ activeChannelTab' = lastOp'.id
          /\ expandedChannelId' = expandedChannelId]_vars

\* a tab was changed through a bar that has a hidden and a disabled tab
C9_Witness ==
    /\ lastOp.op = "tab"
    /\ activeChannelTab = lastOp.id
    /\ \E i, j \in 1..Len(tabs) : tabs[i].hidden = "true" /\ tabs[j].disabled = "true"
    /\ expandedChannelId # NoChannel

(***************************************************************************)
(* The status model: a list item is drawn and its row is rendered.         *)
(***************************************************************************)
ListItems ==
    {[NoItem EXCEPT !.id = "whatsapp", !.label = "WhatsApp", !.configured = f[1],
                    !.running = f[2], !.connected = f[3], !.hasError = f[4],
                    !.accountCount = n] :
        f \in [1..4 -> BOOLEAN], n \in 0..MaxAccountCount}

InitStatus ==
    /\ channel \in ListItems
    /\ statusClass = ""
    /\ statusSummary = <<>>
    /\ lastOp = NoOp
    /\ snapshot = NullSnapshot
    /\ enabled = {}
    /\ expandedChannelId = NoChannel
    /\ activeChannelTab = "status"
    /\ orderedChannels = <<>>
    /\ tabs = <<>>
    /\ InitExtras

\* the row of renderChannelsList for the item
RenderRow ==
    /\ lastOp.op = "init"
    /\ statusClass' = getStatusClass(channel)
    /\ statusSummary' = getStatusSummary(channel)
    /\ lastOp' = Op("row", NoChannel)
    /\ UNCHANGED <<snapshot, enabled, expandedChannelId, activeChannelTab,
                   orderedChannels, tabs, channel, Extras>>

NextStatus == RenderRow

SpecStatus == InitStatus /\ [][NextStatus]_vars

\* C10: the summary starts with exactly one primary label, chosen by the
\* precedence error > connected > running > configured > unconfigured; the
\* dot class agrees with the label; the account suffix depends on the
\* account count alone.
C10_StatusPrecedence ==
    lastOp.op = "row" =>
        /\ Len(statusSummary) \in {1, 2}
        /\ statusSummary[1] \in {"Error", "Connected", "Running", "Configured", "Not configured"}
        /\ channel.hasError => statusSummary[1] = "Error"
        /\ (~channel.hasError /\ channel.connected) => statusSummary[1] = "Connected"
        /\ (~channel.hasError /\ ~channel.connected /\ channel.running)
             => statusSummary[1] = "Running"
        /\ (~channel.hasError /\ ~channel.connected /\ ~channel.running /\ channel.configured)
             => statusSummary[1] = "Configured"
        /\ (~channel.hasError /\ ~channel.connected /\ ~channel.running /\ ~channel.configured)
             => statusSummary[1] = "Not configured"
        /\ statusClass = "error" <=> statusSummary[1] = "Error"
        /\ statusClass = "ok" <=> statusSummary[1] \in {"Connected", "Running"}
        /\ statusClass = "configured" <=> statusSummary[1] = "Configured"
        /\ statusClass = "unconfigured" <=> statusSummary[1] = "Not configured"
        /\ channel.accountCount = 0 => Len(statusSummary) = 1
        /\ channel.accountCount = 1 => statusSummary = <<statusSummary[1], "1 account">>
        /\ channel.accountCount > 1 =>
              statusSummary = <<statusSummary[1], ToString(channel.accountCount) \o " accounts">>

\* an item with an error and every flag set, and two accounts, was rendered
C10_Witness ==
    /\ lastOp.op = "row"
    /\ channel.hasError /\ channel.connected /\ channel.running /\ channel.configured
    /\ channel.accountCount = 2
    /\ statusClass = "error"
    /\ statusSummary = <<"Error", "2 accounts">>

(***************************************************************************)
(* The ordering model: a snapshot and an enabled assignment are drawn, and *)
(* renderChannels computes the display order.                              *)
(***************************************************************************)
SortKeys == {"whatsapp", "telegram", ExtensionKey}

EnabledSets == SUBSET (SortKeys \cup {"slack"})

SortSnapshots ==
    {NullSnapshot} \cup
    {MkSnapshot([i \in 1..Len(m) |-> MetaEntry(m[i])], o, NoChannels, NoAccounts) :
        m \in BoundedSeq(SortKeys, MaxMetaLen), o \in BoundedSeq(SortKeys, MaxSortLen)}

InitOrder ==
    /\ snapshot \in SortSnapshots
    /\ enabled \in EnabledSets
    /\ expandedChannelId = NoChannel
    /\ activeChannelTab = "status"
    /\ orderedChannels = <<>>
    /\ lastOp = NoOp
    /\ tabs = <<>>
    /\ channel = NoItem
    /\ statusClass = ""
    /\ statusSummary = <<>>
    /\ InitExtras

RenderOrder ==
    /\ lastOp.op = "init"
    /\ orderedChannels' = sortOrderedChannels(snapshot, enabled)
    /\ lastOp' = Op("render", NoChannel)
    /\ UNCHANGED <<snapshot, enabled, expandedChannelId, activeChannelTab,
                   tabs, channel, statusClass, statusSummary, Extras>>

NextOrder == RenderOrder

SpecOrder == InitOrder /\ [][NextOrder]_vars

\* number of entries of sequence s that equal x
Count(s, x) == Cardinality({i \in 1..Len(s) : s[i] = x})

\* C1: the display order has the canonical order's length and is a
\* permutation of it: every key occurs as often in one as in the other.
C1_DisplayOrderIsPermutation ==
    lastOp.op = "render" =>
        LET canonical == resolveChannelOrder(snapshot)
            display == orderedKeys(orderedChannels)
        IN  /\ Len(display) = Len(canonical)
            /\ \A k \in AllKeys : Count(display, k) = Count(canonical, k)

\* a canonical order with a repeated key and a mix of enabled and disabled
\* channels has been re-sorted
C1_Witness ==
    /\ lastOp.op = "render"
    /\ Len(orderedChannels) = 3
    /\ \E i, j \in 1..3 : i # j /\ orderedChannels[i].key = orderedChannels[j].key
    /\ \E i, j \in 1..3 : orderedChannels[i].enabled /\ ~orderedChannels[j].enabled
    /\ orderedKeys(orderedChannels) # resolveChannelOrder(snapshot)

\* C2: enabled channels precede disabled ones, and channels with the same
\* enabled value keep their canonical relative position.
C2_EnabledFirstStable ==
    lastOp.op = "render" =>
        LET canonical == resolveChannelOrder(snapshot)
            oc == orderedChannels
        IN  /\ \A i \in 1..Len(oc) :
                  /\ oc[i].order \in 0..(Len(canonical) - 1)
                  /\ oc[i].key = canonical[oc[i].order + 1]
                  /\ oc[i].enabled = channelEnabled(oc[i].key, enabled)
            /\ \A i, j \in 1..Len(oc) :
                  i < j => /\ ~(~oc[i].enabled /\ oc[j].enabled)
                           /\ (oc[i].enabled = oc[j].enabled => oc[i].order < oc[j].order)

\* canonical [A(enabled), B(disabled), C(enabled)] was rendered as [A, C, B]
C2_Witness ==
    /\ lastOp.op = "render"
    /\ resolveChannelOrder(snapshot) = <<"whatsapp", "telegram", ExtensionKey>>
    /\ enabled = {"whatsapp", ExtensionKey}
    /\ orderedKeys(orderedChannels) = <<"whatsapp", ExtensionKey, "telegram">>

(***************************************************************************)
(* The activity model: the accounts of the extension channel are drawn     *)
(* with any timestamps in any order, and a channel is summarized.          *)
(***************************************************************************)
\* lastInboundAt of an account: null, the epoch itself, or a later time
ActivityTimes == {NoTimestamp, 0, 1000000, 1200000}

ActivityAccount(n, at) == [Account(n) EXCEPT !.lastInboundAt = at]

ActivitySnapshots ==
    {MkSnapshot(<<>>, <<>>, NoChannels,
                [isNull |-> FALSE,
                 byKey |-> [k \in {ExtensionKey} |->
                              [i \in 1..Len(t) |-> ActivityAccount(i, t[i])]]]) :
        t \in BoundedSeq(ActivityTimes, MaxActivityLen)}

InitActivity ==
    /\ snapshot \in ActivitySnapshots
    /\ enabled = {}
    /\ expandedChannelId = NoChannel
    /\ activeChannelTab = "status"
    /\ orderedChannels = <<>>
    /\ lastOp = NoOp
    /\ tabs = <<>>
    /\ channel = NoItem
    /\ statusClass = ""
    /\ statusSummary = <<>>
    /\ InitExtras

\* buildChannelListItems builds the item of key
Summarize(key) ==
    /\ lastOp.op = "init"
    /\ channel' = buildChannelListItem(snapshot, key)
    /\ lastOp' = Op("summarize", key)
    /\ UNCHANGED <<snapshot, enabled, expandedChannelId, activeChannelTab,
                   orderedChannels, tabs, statusClass, statusSummary, Extras>>

NextActivity == \E key \in {ExtensionKey, "telegram"} : Summarize(key)

SpecActivity == InitActivity /\ [][NextActivity]_vars

\* the non-null lastInboundAt values of the accounts of the summarized channel
InboundTimes ==
    LET accounts == accountsOf(channelAccountsOf(snapshot), channel.id)
    IN  {accounts[i].lastInboundAt : i \in 1..Len(accounts)} \ {NoTimestamp}

\* C11: the item's lastActivity is null exactly when no account of the
\* channel has a non-null lastInboundAt, and otherwise is the largest
\* lastInboundAt of the accounts, whatever their order.
C11_LastActivityIsMax ==
    lastOp.op = "summarize" =>
        /\ channel.lastActivity = NoTimestamp <=> InboundTimes = {}
        /\ InboundTimes # {} =>
              /\ channel.lastActivity \in InboundTimes
              /\ \A t \in InboundTimes : t <= channel.lastActivity

(***************************************************************************)
(* The classifier model: the accounts of a channel and the values that     *)
(* Date.now() returns are drawn, and the accounts content of the channel,  *)
(* which has two accounts, is rendered.                                    *)
(***************************************************************************)
\* readings of Date.now(): five minutes after the epoch, and two readings one
\* millisecond apart
NowSamples == {300000, SomeNow - 1, SomeNow}

\* ages of the last inbound message in ms: a message later than now, one at
\* now, one five minutes old, the ages around the threshold, fifteen minutes
AgeSamples == {-1, 0, 300000, 599999, 600000, 900000}

\* lastInboundAt of an account at clock reading n
TimesAround(n) == {NoTimestamp, 0} \cup {t \in {n - d : d \in AgeSamples} : t >= 0}

ClassifierAccounts ==
    {[Account(1) EXCEPT !.running = r, !.connected = c, !.lastInboundAt = t] :
        r \in {"true", "false"}, c \in {"true", "false", Null, Undefined},
        t \in TimesAround(300000) \cup TimesAround(SomeNow)}

\* channelAccounts of a snapshot whose extension channel has the accounts
AccountsSnapshot(accounts) ==
    MkSnapshot(<<>>, <<>>, NoChannels,
               [isNull |-> FALSE, byKey |-> [k \in {ExtensionKey} |-> accounts]])

\* the account next to an account without inbound messages, before and after
\* it, and next to an account with the same fields
ClassifierLists(a) ==
    {<<a, Account(2)>>, <<Account(2), a>>, <<a, [a EXCEPT !.accountId = "acct2"]>>}

\* a card reads the clock twice at most; the clock is not assumed to advance
\* between two readings: it can be set back
InitClassifier ==
    /\ \E a \in ClassifierAccounts : \E accounts \in ClassifierLists(a) :
          /\ snapshot = AccountsSnapshot(accounts)
          /\ clock \in [1..2 * Len(accounts) -> NowSamples]
    /\ enabled = {}
    /\ expandedChannelId = ExtensionKey
    /\ activeChannelTab = "accounts"
    /\ orderedChannels = <<>>
    /\ lastOp = NoOp
    /\ tabs = <<>>
    /\ channel = NoItem
    /\ statusClass = ""
    /\ statusSummary = <<>>
    /\ whatsappBusy = FALSE
    /\ whatsappQrDataUrl = Null
    /\ tabContent = NoContent
    /\ focusedIndex = NoFocus

\* renderTabContent renders the active tab of the expanded channel
RenderContent ==
    /\ lastOp.op = "init"
    /\ tabContent' = renderTabContent(expandedChannelId, activeChannelTab, snapshot)
    /\ lastOp' = Op("content", expandedChannelId)
    /\ UNCHANGED <<snapshot, enabled, expandedChannelId, activeChannelTab, orderedChannels,
                   tabs, channel, statusClass, statusSummary, clock, whatsappBusy,
                   whatsappQrDataUrl, focusedIndex>>

NextClassifier == RenderContent

SpecClassifier == InitClassifier /\ [][NextClassifier]_vars

\* the accounts of the expanded channel
ExpandedAccounts == accountsOf(channelAccountsOf(snapshot), expandedChannelId)

\* lastInboundAt is non-null and less than 600000 ms before the reading
RecentlyActive(account, reading) ==
    account.lastInboundAt # NoTimestamp /\ reading - account.lastInboundAt < 600000

\* C12: hasRecentActivity is true exactly when lastInboundAt is non-null and
\* now - lastInboundAt < 600000, now being the clock reading of the call, for
\* the timestamp 0, for one exactly 600000 ms old and for one later than now
\* as for any other.
C12_RecentActivityWindow ==
    lastOp.op = "content" =>
        \A i \in 1..Len(ExpandedAccounts) : \A k \in 1..Len(clock) :
            hasRecentActivity(ExpandedAccounts[i], DropReadings(clock, k - 1))
                <=> RecentlyActive(ExpandedAccounts[i], clock[k])

\* C13: the connected state of an account card is Yes for connected true, No
\* for an explicit false whatever the activity, and for an unknown connected
\* Active when the activity is recent at every reading of the clock and n/a
\* when it is recent at none; the running flag plays no part.
C13_ConnectedState ==
    lastOp.op = "content" =>
        /\ Len(tabContent.accounts.cards) = Len(ExpandedAccounts)
        /\ \A i \in 1..Len(ExpandedAccounts) :
              LET account == ExpandedAccounts[i]
                  connected == tabContent.accounts.cards[i].connected
                  recent == {RecentlyActive(account, clock[k]) : k \in 1..Len(clock)}
              IN  IF account.connected = "true" THEN connected = "Yes"
                  ELSE IF account.connected = "false" THEN connected = "No"
                  ELSE /\ connected \in {"Active", "n/a"}
                       /\ recent = {TRUE} => connected = "Active"
                       /\ recent = {FALSE} => connected = "n/a"

(***************************************************************************)
(* The record model: a snapshot is drawn whose record of one channel is    *)
(* absent, null or has fields of any type; the channel is summarized, and  *)
(* its status content is rendered.                                         *)
(***************************************************************************)
\* a boolean-like field: absent, null, a boolean, or a non-empty string
FieldValues == {Undefined, Null, "true", "false", "str"}

\* lastError: absent, null, the empty string, a message, or a number
ErrorValues == {Undefined, Null, "", "boom", NonString, FalsyNumber}

StatusRecords ==
    {[kind |-> "object", configured |-> c, running |-> r, connected |-> n,
      lastError |-> e, linked |-> l] :
        c \in FieldValues, r \in FieldValues, n \in FieldValues, e \in ErrorValues,
        l \in {Undefined, "true"}}
    \cup {[UndefinedStatus EXCEPT !.kind = Null]}

\* the snapshots of channel key: no snapshot, no channels, no record, a record
RecordSnapshots(key) ==
    {NullSnapshot,
     MkSnapshot(<<>>, <<>>, NoChannels, NoAccounts),
     MkSnapshot(<<>>, <<>>, [isNull |-> FALSE, byKey |-> <<>>], NoAccounts)}
    \cup {MkSnapshot(<<>>, <<>>, [isNull |-> FALSE, byKey |-> [k \in {key} |-> rec]],
                     NoAccounts) : rec \in StatusRecords}

InitRecord ==
    /\ expandedChannelId \in AllKeys
    /\ snapshot \in RecordSnapshots(expandedChannelId)
    /\ activeChannelTab = "status"
    /\ enabled = {}
    /\ orderedChannels = <<>>
    /\ lastOp = NoOp
    /\ tabs = <<>>
    /\ channel = NoItem
    /\ statusClass = ""
    /\ statusSummary = <<>>
    /\ InitExtras

NextRecord == Summarize(expandedChannelId) \/ RenderContent

SpecRecord == InitRecord /\ [][NextRecord]_vars

\* field f of the record of the expanded channel as the snapshot holds it
RawField(f) ==
    IF snapshot.isNull \/ snapshot.channels.isNull
         \/ expandedChannelId \notin DOMAIN snapshot.channels.byKey
      THEN Undefined
      ELSE snapshot.channels.byKey[expandedChannelId][f]

\* C14: a configured, running or connected field that a status strategy
\* shows is shown as n/a when the record's field is absent or not a boolean,
\* whichever strategy renders the channel.
C14_AbsentShownAsNa ==
    lastOp.op = "content" =>
        \A f \in {"configured", "running", "connected"} :
            (tabContent.status[f] # NotShown /\ RawField(f) \notin {"true", "false"})
                => tabContent.status[f] = "n/a"

\* C15: the summarizer returns an item for every snapshot; configured,
\* running and connected are the record's value when it is a boolean and
\* false otherwise, whatever lastError is; hasError holds exactly of a
\* non-empty string lastError.
C15_SummarizerTotal ==
    lastOp.op = "summarize" =>
        /\ ~channel.threw
        /\ channel.id = expandedChannelId
        /\ channel.configured = (RawField("configured") = "true")
        /\ channel.running = (RawField("running") = "true")
        /\ channel.connected = (RawField("connected") = "true")
        /\ channel.hasError = (RawField("lastError") = "boom")
        /\ channel.accountCount = 0
        /\ channel.lastActivity = NoTimestamp

\* a record was summarized whose configured is a string, whose running is
\* true, whose connected is absent and whose lastError is a message
C15_Witness ==
    /\ lastOp.op = "summarize"
    /\ RawField("configured") = "str"
    /\ RawField("running") = "true"
    /\ RawField("connected") = Undefined
    /\ RawField("lastError") = "boom"
    /\ ~channel.configured /\ channel.running /\ ~channel.connected /\ channel.hasError

(***************************************************************************)
(* The keyboard model: a list is rendered with a channel expanded or none, *)
(* and keys are pressed on its rows.                                       *)
(***************************************************************************)
\* the default order of eight rows, or a channelOrder of one to MaxListLen rows
KeySnapshots ==
    {NullSnapshot} \cup
    {MkSnapshot(<<>>, SubSeq(DefaultChannelOrder, 1, n), NoChannels, NoAccounts) :
        n \in 1..(IF MaxListLen < MaxRows THEN MaxListLen ELSE MaxRows)}

InitKeys ==
    /\ snapshot \in KeySnapshots
    /\ enabled = {}
    /\ orderedChannels = sortOrderedChannels(snapshot, enabled)
    /\ expandedChannelId \in {NoChannel} \cup SeqRange(orderedKeys(orderedChannels))
    /\ activeChannelTab \in ChannelTabs
    /\ lastOp = NoOp
    /\ tabs = <<>>
    /\ channel = NoItem
    /\ statusClass = ""
    /\ statusSummary = <<>>
    /\ InitExtras

\* @keydown of row i, the key and the row recorded
RowKeyPress(i, key) ==
    /\ KeyDown(i, key)
    /\ lastOp' = NavOp(key, Rows[i].id, Nav)

NextKeys == \E i \in 1..MaxRows, key \in ListKeys : RowKeyPress(i, key)

SpecKeys == InitKeys /\ [][NextKeys]_vars

FocusKeys == {"ArrowDown", "ArrowUp", "Home", "End"}

\* the index of the row of the channel; the rows of the keyboard model have
\* distinct channels
RowIndex(channelId) ==
    CHOOSE index \in 0..(Len(orderedChannels) - 1) :
        orderedChannels[index + 1].key = channelId

\* C16: ArrowDown and ArrowUp move the focus to the next and the previous
\* row and stay on the last and the first row, Home and End move it to the
\* first and the last row, in a list without rows no row is focused, the
\* four keys leave expandedChannelId and activeTab as they were, and a step
\* that changes either is a press of Enter, Space or Escape, which moves no
\* focus.
C16_FocusKeysClampAndFrame ==
    [][LET count == Len(orderedChannels)
           index == RowIndex(lastOp'.id)
       IN  /\ lastOp'.op = "ArrowDown" =>
                 focusedIndex' = IF index = count - 1 THEN count - 1 ELSE index + 1
           /\ lastOp'.op = "ArrowUp" =>
                 focusedIndex' = IF index = 0 THEN 0 ELSE index - 1
           /\ lastOp'.op = "Home" => focusedIndex' = 0
           /\ lastOp'.op = "End" => focusedIndex' = count - 1
           /\ lastOp'.op \in FocusKeys =>
                 /\ UNCHANGED <<expandedChannelId, activeChannelTab>>
                 /\ focusedIndex' \in 0..(count - 1)
           /\ lastOp'.op \in {"Enter", " ", "Escape"} => focusedIndex' = NoFocus
           /\ (expandedChannelId' # expandedChannelId \/ activeChannelTab' # activeChannelTab)
                 => lastOp'.op \in {"Enter", " ", "Escape"}
           /\ \A target \in -1..1 : focusRow(target, 0) = NoFocus]_vars

\* ArrowDown was pressed on the last row of a list of several rows while a
\* channel was expanded on the config tab
C16_Witness ==
    /\ lastOp.op = "ArrowDown"
    /\ Len(orderedChannels) > 1
    /\ lastOp.id = orderedChannels[Len(orderedChannels)].key
    /\ focusedIndex = Len(orderedChannels) - 1
    /\ expandedChannelId # NoChannel
    /\ activeChannelTab = "config"

(***************************************************************************)
(* The actions model: a channel is expanded on the actions tab with the    *)
(* busy flag set or not, its actions are rendered, and the user clicks the *)
(* buttons that are not disabled.                                          *)
(***************************************************************************)
\* channels with a whatsapp record whose linked is l
LinkedChannels(l) ==
    [isNull |-> FALSE,
     byKey |-> [k \in {"whatsapp"} |-> [RunningStatus EXCEPT !.linked = l]]]

ActionSnapshots ==
    {NullSnapshot} \cup
    {MkSnapshot(<<>>, <<>>, LinkedChannels(l), NoAccounts) : l \in {Undefined, "true", "false"}}

InitActions ==
    /\ expandedChannelId \in AllKeys
    /\ activeChannelTab = "actions"
    /\ snapshot \in ActionSnapshots
    /\ whatsappBusy \in BOOLEAN
    /\ whatsappQrDataUrl \in {Null, "data:image/png;base64"}
    /\ enabled = {}
    /\ orderedChannels = <<>>
    /\ lastOp = NoOp
    /\ tabs = <<>>
    /\ channel = NoItem
    /\ statusClass = ""
    /\ statusSummary = <<>>
    /\ clock = <<>>
    /\ tabContent = NoContent
    /\ focusedIndex = NoFocus

\* @click of button b of the rendered actions: a disabled button gets no
\* click; the callback itself runs in the host
ActionClick(b) ==
    /\ tabContent.tab = "actions"
    /\ b \in 1..Len(tabContent.actions.buttons)
    /\ ~tabContent.actions.buttons[b].disabled
    /\ lastOp' = Op(tabContent.actions.buttons[b].action, expandedChannelId)
    /\ UNCHANGED <<snapshot, enabled, expandedChannelId, activeChannelTab, orderedChannels,
                   tabs, channel, statusClass, statusSummary, Extras>>

NextActions == RenderContent \/ \E b \in 1..2 : ActionClick(b)

SpecActions == InitActions /\ [][NextActions]_vars

ActionCallbacks == {"onWhatsAppStart", "onWhatsAppLogout", "onRefresh"}

\* C17: while the busy flag is set every action button of the expanded
\* channel is disabled and no action callback is called from a button; the
\* logout button is there only when linked is true.
C17_ActionsDisabledWhileBusy ==
    tabContent.tab = "actions" =>
        LET buttons == tabContent.actions.buttons
        IN  /\ whatsappBusy => \A b \in 1..Len(buttons) : buttons[b].disabled
            /\ lastOp.op \in ActionCallbacks => ~whatsappBusy
            /\ (\E b \in 1..Len(buttons) : buttons[b].action = "onWhatsAppLogout")
                  => /\ expandedChannelId = "whatsapp"
                     /\ statusOf(snapshot, "whatsapp").linked = "true"

====
